---- MODULE Spec2Model ----
(***************************************************************************)
(* A model of the core of the scann crate: the dense vector store          *)
(* (util.rs), the brute-force retriever (retrieval.rs), the distance       *)
(* measures and their registry (distance_measures.rs), the order-preserving *)
(* key codec (serialize.rs) and the PCA projection (projection.rs).        *)
(***************************************************************************)
EXTENDS Integers, Sequences, FiniteSets, TLC

VARIABLES
    data,             \* DenseDataset::data, the rows in index order
    dimensionality,   \* DenseDataset::dimensionality
    retriever,        \* the ScannRetriever that owns the dataset, if one was built
    results,          \* what the last ScannRetriever::search returned
    last,             \* the last operation called, its vector argument and its outcome
    keys,             \* the key codec's calls: per slot, the value, its key, the decoding
    overflow_checks,  \* the build profile: TRUE when integer overflow panics
    measure_call,     \* the last lookup in the measure registry and the last distance computed
    cosine_definition, \* which of the two definitions of CosineDistance the name resolves to
    projection,       \* the PcaProjection: its element type, its dimensions, its basis
    projected,        \* the caller's output vector of project_input
    serialized,       \* what the last serialize_to_proto returned
    directions,       \* the basis a caller got from get_directions and still holds
    chunks,           \* what the last ScannRetriever::retrieve_chunks returned
    training_options, \* the last configuration and what from_config made of it
    threads           \* the searches in flight: per thread, its query, its position, its rows

vars == <<data, dimensionality, retriever, results, last, keys, overflow_checks,
          measure_call, cosine_definition, projection, projected, serialized,
          directions, chunks, training_options, threads>>

(***************************************************************************)
(* Bounds of the model.                                                    *)
(***************************************************************************)
MaxRows == 5
MaxDim == 2
MaxK == 5
MaxSeqLen == 4
MaxChunkSize == 3

(***************************************************************************)
(* f32 components.  A component is a small integer (exact in f32) or NaN.  *)
(***************************************************************************)
Num(n) == [nan |-> FALSE, val |-> n]

NaN == [nan |-> TRUE, val |-> 0]

\* f32 multiplication: NaN is absorbing
FMul(x, y) == IF x.nan \/ y.nan THEN NaN ELSE Num(x.val * y.val)

\* f32 addition: NaN is absorbing
FAdd(x, y) == IF x.nan \/ y.nan THEN NaN ELSE Num(x.val + y.val)

\* f32::partial_cmp: None when either side is NaN
partial_cmp(x, y) ==
    IF x.nan \/ y.nan THEN "None"
    ELSE IF x.val < y.val THEN "Less"
    ELSE IF x.val = y.val THEN "Equal"
    ELSE "Greater"

Min(a, b) == IF a <= b THEN a ELSE b

\* the vectors the callers pass as rows and as queries
Vectors == { <<Num(1)>>, <<Num(-1)>>, <<NaN>>, <<Num(2), Num(1)>> }

Dims == 1..MaxDim

\* the data a caller hands to DenseDataset::new
InitialData == { <<>> } \cup { <<v>> : v \in Vectors }

NoRetriever == [built |-> FALSE, measure |-> "", k |-> 0]

NoResults == [status |-> "none", pairs |-> <<>>]

Called(op, arg, status) == [op |-> op, arg |-> arg, status |-> status]

\* a panic ends the program
Panicked == results.status = "panic"

(***************************************************************************)
(* distance_measures.rs                                                    *)
(***************************************************************************)
\* the measures callers configure a retriever with
RetrieverMeasures == { "DotProductDistance", "SquaredL2Distance" }

\* a.iter().zip(b.iter()).map(|(x, y)| x * y).sum(): zip stops at the shorter
RECURSIVE SumProducts(_, _, _)
SumProducts(a, b, n) ==
    IF n = 0 THEN Num(0)
    ELSE FAdd(SumProducts(a, b, n - 1), FMul(a[n], b[n]))

\* the body define_distance_measure! gives every measure it defines
MacroDistance(a, b) == SumProducts(a, b, Min(Len(a), Len(b)))

\* every measure a retriever is built with here is one the macro defines
compute_distance(measure, a, b) == MacroDistance(a, b)

(***************************************************************************)
(* retrieval.rs: ScannRetriever::search                                    *)
(***************************************************************************)
\* for (i, data_point) in dataset.data.iter().enumerate(): results.push((i, distance))
Scored(rows, measure, query) ==
    [i \in 1..Len(rows) |->
        [id |-> i - 1, dist |-> compute_distance(measure, query, rows[i])]]

\* partial_cmp(..).unwrap() panics on the first comparison that involves a NaN;
\* a sort of two or more elements compares every element at least once
SortPanics(rs) == Len(rs) >= 2 /\ \E i \in 1..Len(rs) : rs[i].dist.nan

InsertAtUnstable(sorted, x) ==
    LET notless == { p \in 1..Len(sorted) : partial_cmp(sorted[p].dist, x.dist) # "Less" }
    IN  IF notless = {} THEN Len(sorted) + 1
        ELSE CHOOSE p \in notless : \A q \in notless : p <= q

\* where a stable sort puts x among the sorted elements: before the first one
\* that compares Greater than x
InsertAt(sorted, x) ==
    LET greater == { p \in 1..Len(sorted) : partial_cmp(sorted[p].dist, x.dist) = "Greater" }
    IN  IF greater = {} THEN Len(sorted) + 1
        ELSE CHOOSE p \in greater : \A q \in greater : p <= q

StableInsert(sorted, x) ==
    LET p == InsertAt(sorted, x)
    IN  SubSeq(sorted, 1, p - 1) \o <<x>> \o SubSeq(sorted, p, Len(sorted))

\* results.sort_by(|a, b| a.1.partial_cmp(&b.1).unwrap()): a stable sort
RECURSIVE sort_by(_)
sort_by(rs) ==
    IF rs = <<>> THEN <<>>
    ELSE StableInsert(sort_by(SubSeq(rs, 1, Len(rs) - 1)), rs[Len(rs)])

\* the last k instead of the first k
take_last(rs, k) == SubSeq(rs, Len(rs) - Min(k, Len(rs)) + 1, Len(rs))

\* results.into_iter().take(self.k).collect()
take(rs, k) == SubSeq(rs, 1, Min(k, Len(rs)))

search_result(rows, measure, k, query) ==
    LET scored == Scored(rows, measure, query)
    IN  IF SortPanics(scored) THEN [status |-> "panic", pairs |-> <<>>]
        ELSE [status |-> "Ok", pairs |-> take(sort_by(scored), k)]

(***************************************************************************)
(* util.rs: DenseDataset                                                   *)
(***************************************************************************)
\* the store and the retriever call neither the codec, the registry nor the projection
CodecIdle ==
    UNCHANGED <<keys, overflow_checks, measure_call, cosine_definition,
                projection, projected, serialized, directions,
                chunks, training_options, threads>>

DenseDataset_new(rows, dim) ==
    /\ ~Panicked
    /\ data' = rows
    /\ dimensionality' = dim
    /\ retriever' = NoRetriever
    /\ results' = NoResults
    /\ last' = Called("new", <<>>, "Ok")
    /\ CodecIdle

set_dimensionality(dim) ==
    /\ ~Panicked
    /\ ~retriever.built
    /\ dimensionality' = dim
    /\ last' = Called("set_dimensionality", <<>>, "Ok")
    /\ UNCHANGED <<data, retriever, results>>
    /\ CodecIdle

\* Vec::reserve changes the capacity only, which no operation reads
reserve ==
    /\ ~Panicked
    /\ ~retriever.built
    /\ last' = Called("reserve", <<>>, "Ok")
    /\ UNCHANGED <<data, dimensionality, retriever, results>>
    /\ CodecIdle

append_unchecked(values) ==
    /\ ~Panicked
    /\ ~retriever.built
    /\ Len(data) < MaxRows
    /\ data' = Append(data, values)
    /\ last' = Called("append", values, "Ok")
    /\ UNCHANGED <<dimensionality, retriever, results>>
    /\ CodecIdle

append(values) ==
    /\ ~Panicked
    /\ ~retriever.built
    /\ IF Len(values) # dimensionality
       THEN /\ last' = Called("append", values, "InvalidArgument")
            /\ UNCHANGED data
       ELSE /\ Len(data) < MaxRows
            /\ data' = Append(data, values)
            /\ last' = Called("append", values, "Ok")
    /\ UNCHANGED <<dimensionality, retriever, results>>
    /\ CodecIdle

(***************************************************************************)
(* retrieval.rs: ScannRetriever                                            *)
(***************************************************************************)
\* ScannRetriever::new takes the dataset by value: the store is the retriever's
ScannRetriever_new(measure, k) ==
    /\ ~Panicked
    /\ ~retriever.built
    /\ retriever' = [built |-> TRUE, measure |-> measure, k |-> k]
    /\ last' = Called("ScannRetriever::new", <<>>, "Ok")
    /\ UNCHANGED <<data, dimensionality, results>>
    /\ CodecIdle

search(query) ==
    /\ ~Panicked
    /\ retriever.built
    /\ results' = search_result(data, retriever.measure, retriever.k, query)
    /\ last' = Called("search", query, results'.status)
    /\ UNCHANGED <<data, dimensionality, retriever>>
    /\ CodecIdle


(***************************************************************************)
(* serialize.rs: the key codec.                                            *)
(* A u32 is its two 16-bit limbs <<high, low>>, a u64 its four, most       *)
(* significant first; an f32 is its bit pattern as a u32; an i32 is an     *)
(* integer; a key is a sequence of bytes.                                  *)
(***************************************************************************)
Limb == 2^16

Byte == 2^8

\* least significant byte first
ToLeBytes(n) ==
    [i \in 1..(2 * Len(n)) |->
        IF i % 2 = 1 THEN n[Len(n) - ((i + 1) \div 2) + 1] % Byte
        ELSE n[Len(n) - (i \div 2) + 1] \div Byte]

\* u32::to_be_bytes, u64::to_be_bytes: most significant byte first
ToBeBytes(n) ==
    [i \in 1..(2 * Len(n)) |->
        IF i % 2 = 1 THEN n[(i + 1) \div 2] \div Byte ELSE n[i \div 2] % Byte]

\* u32::from_be_bytes, u64::from_be_bytes
FromBeBytes(bytes) ==
    [i \in 1..(Len(bytes) \div 2) |-> bytes[2 * i - 1] * Byte + bytes[2 * i]]

\* i32 as u32: the two's complement bit pattern
i32_as_u32(x) == << (x \div Limb) % Limb, x % Limb >>

\* u32 as i32
u32_as_i32(n) ==
    IF n[1] >= Limb \div 2 THEN (n[1] - Limb) * Limb + n[2] ELSE n[1] * Limb + n[2]

\* !(!0u32 >> 1)
sign_bit == << Limb \div 2, 0 >>

\* n & sign_bit != 0
SignBitSet(n) == n[1] >= sign_bit[1]

\* a + b on u32, and whether it overflowed
U32Add(a, b) ==
    LET lo == a[2] + b[2]
        hi == a[1] + b[1] + (lo \div Limb)
    IN  [overflow |-> hi >= Limb, val |-> << hi % Limb, lo % Limb >>]

\* a - b on u32, and whether it overflowed
U32Sub(a, b) ==
    LET lo == a[2] - b[2]
        hi == a[1] - b[1] - (IF lo < 0 THEN 1 ELSE 0)
    IN  [overflow |-> hi < 0, val |-> << hi % Limb, lo % Limb >>]

\* !n on u32
U32Not(n) == << Limb - 1 - n[1], Limb - 1 - n[2] >>

\* the outcome of `+` and `-`: with overflow checks an overflow panics,
\* without them the result wraps modulo 2^32
Arith(r) ==
    IF r.overflow /\ overflow_checks THEN [status |-> "panic", val |-> <<>>]
    ELSE [status |-> "Ok", val |-> r.val]

uint_from_ieee754(n) ==
    IF ~SignBitSet(n) THEN Arith(U32Add(n, sign_bit))
    ELSE Arith(U32Sub(<<0, 0>>, n))

ieee754_from_uint_complement(n) ==
    IF SignBitSet(n) THEN Arith(U32Sub(n, sign_bit))
    ELSE [status |-> "Ok", val |-> U32Not(n)]

ieee754_from_uint(n) ==
    IF SignBitSet(n) THEN Arith(U32Sub(n, sign_bit))
    ELSE Arith(U32Sub(<<0, 0>>, n))

key_from_uint32(n) == ToBeBytes(n)

key_from_uint64(n) == ToBeBytes(n)

uint32_to_key(n) == [status |-> "Ok", key |-> key_from_uint32(n)]

int32_to_key(x) == uint32_to_key(i32_as_u32(x))

uint64_to_key(n) == [status |-> "Ok", key |-> key_from_uint64(n)]

key_from_float(x) ==
    LET n == uint_from_ieee754(x)
    IN  IF n.status = "Ok" THEN [status |-> "Ok", key |-> key_from_uint32(n.val)]
        ELSE [status |-> "panic", key |-> <<>>]

float_to_key(x) == key_from_float(x)

Decoded(fn, status, val) == [fn |-> fn, status |-> status, val |-> val]

\* key_to_uint32 that only rejects the keys that are too short
key_to_uint32_prefix(key) ==
    IF Len(key) < 4 THEN Decoded("key_to_uint32", "InvalidArgument", <<>>)
    ELSE Decoded("key_to_uint32", "Ok", FromBeBytes(SubSeq(key, 1, 4)))

key_to_uint32(key) ==
    IF Len(key) # 4 THEN Decoded("key_to_uint32", "InvalidArgument", <<>>)
    ELSE Decoded("key_to_uint32", "Ok", FromBeBytes(key))

key_to_int32(key) ==
    LET v == key_to_uint32(key)
    IN  IF v.status = "Ok" THEN Decoded("key_to_int32", "Ok", u32_as_i32(v.val))
        ELSE Decoded("key_to_int32", v.status, <<>>)

key_to_uint64(key) ==
    IF Len(key) # 8 THEN Decoded("key_to_uint64", "InvalidArgument", <<>>)
    ELSE Decoded("key_to_uint64", "Ok", FromBeBytes(key))

key_to_float(key) ==
    LET n == key_to_uint32(key)
    IN  IF n.status # "Ok" THEN Decoded("key_to_float", n.status, <<>>)
        ELSE LET f == ieee754_from_uint(n.val)
             IN  Decoded("key_to_float", f.status, f.val)

(***************************************************************************)
(* The values the callers encode.                                          *)
(***************************************************************************)
LowLimbs == { 0, 1, Limb - 1 }

U32Inputs == { <<hi, lo>> : hi \in { 0, 1, 32768, 65535 }, lo \in LowLimbs }

I32Inputs == { -2147483647 - 1, -65537, -65536, -2, -1, 0, 1, 65535, 65536, 2147483647 }

U64Inputs ==
    { <<a, b, c, d>> : a \in { 0, 32769, 65535 }, b \in { 0 }, c \in { 4660 }, d \in { 0, 43981 } }

\* high limbs of non-negative floats: 0, a subnormal, 1.0, the largest finite
\* exponent, infinity, a NaN
PositiveHighLimbs == { 0, 1, 16256, 32639, 32640, 32704 }

F32Inputs ==
    { <<hi, lo>> : hi \in PositiveHighLimbs \cup { h + sign_bit[1] : h \in PositiveHighLimbs },
                   lo \in LowLimbs }

\* byte strings of other widths that a caller hands to the decoders (&[u8])
RawKeys == { <<>>, <<1, 2, 3>>, <<1, 2, 3, 4, 5>>, <<0, 0, 0, 0, 0, 0, 0, 0, 1>> }

Slots == { 1, 2 }

\* a decoding of the key of call s
Decoding(s, dec) == [slot |-> s, fn |-> dec.fn, status |-> dec.status, val |-> dec.val]

NoDecoding == Decoding(0, Decoded("none", "none", <<>>))

NoCall == [kind |-> "none", val |-> <<>>, enc |-> [status |-> "none", key |-> <<>>]]

\* no call of the codec yet
NoKeys == [calls |-> [s \in Slots |-> NoCall], decoded |-> NoDecoding]

\* a panic ends the program
CodecPanicked ==
    \/ \E s \in Slots : keys.calls[s].enc.status = "panic"
    \/ keys.decoded.status = "panic"

\* the store and the retriever are not touched by the codec
StoreIdle ==
    UNCHANGED <<data, dimensionality, retriever, results, last, overflow_checks,
                measure_call, cosine_definition, projection, projected, serialized,
                directions, chunks, training_options, threads>>

Call(kind, x, enc) == [kind |-> kind, val |-> x, enc |-> enc]

\* the encoding calls are recorded in order, one per slot
CanEncode(s) ==
    /\ ~CodecPanicked
    /\ keys.calls[s].kind = "none"
    /\ \A t \in Slots : t < s => keys.calls[t].kind # "none"

\* a key that was produced can be handed to any of the decoders
CanDecode(s) ==
    /\ ~CodecPanicked
    /\ keys.calls[s].enc.status = "Ok"

EncodeUint32(s, x) ==
    /\ CanEncode(s)
    /\ keys' = [keys EXCEPT !.calls[s] = Call("u32", x, uint32_to_key(x))]
    /\ StoreIdle

EncodeInt32(s, x) ==
    /\ CanEncode(s)
    /\ keys' = [keys EXCEPT !.calls[s] = Call("i32", x, int32_to_key(x))]
    /\ StoreIdle

EncodeUint64(s, x) ==
    /\ CanEncode(s)
    /\ keys' = [keys EXCEPT !.calls[s] = Call("u64", x, uint64_to_key(x))]
    /\ StoreIdle

EncodeFloat(s, x) ==
    /\ CanEncode(s)
    /\ keys' = [keys EXCEPT !.calls[s] = Call("f32", x, float_to_key(x))]
    /\ StoreIdle

\* the caller brings a byte string of its own instead of an encoded value
SupplyKey(s, bytes) ==
    /\ CanEncode(s)
    /\ keys' = [keys EXCEPT !.calls[s] = Call("bytes", bytes, [status |-> "Ok", key |-> bytes])]
    /\ StoreIdle

DecodeUint32(s) ==
    /\ CanDecode(s)
    /\ keys' = [keys EXCEPT !.decoded = Decoding(s, key_to_uint32(keys.calls[s].enc.key))]
    /\ StoreIdle

DecodeInt32(s) ==
    /\ CanDecode(s)
    /\ keys' = [keys EXCEPT !.decoded = Decoding(s, key_to_int32(keys.calls[s].enc.key))]
    /\ StoreIdle

DecodeUint64(s) ==
    /\ CanDecode(s)
    /\ keys' = [keys EXCEPT !.decoded = Decoding(s, key_to_uint64(keys.calls[s].enc.key))]
    /\ StoreIdle

DecodeFloat(s) ==
    /\ CanDecode(s)
    /\ keys' = [keys EXCEPT !.decoded = Decoding(s, key_to_float(keys.calls[s].enc.key))]
    /\ StoreIdle

(***************************************************************************)
(* projection.rs: PcaProjection                                            *)
(***************************************************************************)
\* pca_vecs: None
NoBasis == [present |-> FALSE, data |-> <<>>, dimensionality |-> 0]

\* pca_vecs: Some(Arc<DenseDataset<f32>>)
Basis(rows, dim) == [present |-> TRUE, data |-> rows, dimensionality |-> dim]

\* no PcaProjection was constructed yet
NoProjection ==
    [built |-> FALSE, elem |-> "", input_dims |-> 0, projected_dims |-> 0, pca_vecs |-> NoBasis]

\* serialize_to_proto was not called yet
NoSerialized == [result |-> "none", rotation_vec |-> <<>>, of |-> NoBasis]

\* what the caller's output vector holds before any projection
InitialProjected == << Num(7) >>

\* get_directions was not called yet, or it returned None
NoSnapshot == [taken |-> FALSE, shared |-> FALSE, data |-> <<>>, dimensionality |-> 0]

ProjectionUnused ==
    /\ projection = NoProjection
    /\ projected = InitialProjected
    /\ serialized = NoSerialized
    /\ directions = NoSnapshot

\* retrieve_chunks was not called yet
NoChunks == [status |-> "none", input_seq |-> <<>>, chunk_size |-> 0, lists |-> <<>>]

\* from_config was not called yet
NoOptions == [status |-> "none"]

\* no search is in flight
NoThreads == <<>>

\* neither retrieve_chunks, from_config nor a search thread has run
RestUnused ==
    /\ chunks = NoChunks
    /\ training_options = NoOptions
    /\ threads = NoThreads

\* the element types T of PcaProjection<T>: f32 and one that is not f32
ElemTypes == { "f32", "i16" }

\* the i32 dimensions the callers construct with
ProjectionDims == { -1 } \cup (0..MaxDim)

ZeroRow(n) == [i \in 1..n |-> Num(0)]

\* the datasets handed to create and create_with_thresholds: the placeholder
\* PCA reads nothing but their dimensionality
FitDatasets == { [data |-> <<>>, dimensionality |-> d] : d \in 1..MaxDim }

\* the datasets handed to create_from_eigenvectors: matrices of 1 and 2 rows,
\* one with rows of unequal length, one without rows
EigenDatasets ==
    { [data |-> << <<Num(2)>> >>, dimensionality |-> 1],
      [data |-> << <<Num(1)>>, <<Num(-1)>> >>, dimensionality |-> 1],
      [data |-> << <<Num(1), Num(2)>> >>, dimensionality |-> 2],
      [data |-> << <<Num(1), Num(0)>>, <<Num(0), Num(1)>> >>, dimensionality |-> 2],
      [data |-> << <<Num(1), Num(0)>>, <<Num(1)>> >>, dimensionality |-> 2],
      [data |-> <<>>, dimensionality |-> 1] }

\* the rotation vectors of the protos the callers build themselves
CallerRotations ==
    { <<>>, << <<Num(3)>> >>, << <<Num(0), Num(1)>>, <<Num(5)>> >> }

\* the inputs that are projected
ProjectionInputs == { <<Num(1)>>, <<Num(-2)>>, <<Num(2), Num(-1)>>, <<Num(0), Num(3)>> }

\* f32 negation
FNeg(x) == IF x.nan THEN NaN ELSE Num(0 - x.val)

\* fn dot_product: the sum of the products of the zipped components
dot_product(a, b) == SumProducts(a, b, Min(Len(a), Len(b)))

\* a panic ends the program
ProjectionPanicked == last.status = "panic"

\* the projection touches nothing else
ProjectionOnly ==
    UNCHANGED <<data, dimensionality, retriever, results, keys, overflow_checks,
                measure_call, cosine_definition, chunks, training_options, threads>>

\* self.pca_vecs = Some(Arc::new(..)): the projection points to a new
\* allocation, a snapshot taken before keeps the old one to itself
Detached == [directions EXCEPT !.shared = FALSE]

\* PcaProjection::new without the comparison of the two dimensions
PcaProjection_new_unordered(elem, input_dims, projected_dims) ==
    /\ ~ProjectionPanicked
    /\ ~projection.built
    /\ IF input_dims <= 0 \/ projected_dims <= 0
       THEN /\ last' = Called("PcaProjection::new", <<input_dims, projected_dims>>, "InvalidArgument")
            /\ UNCHANGED projection
       ELSE /\ last' = Called("PcaProjection::new", <<input_dims, projected_dims>>, "Ok")
            /\ projection' = [built |-> TRUE, elem |-> elem, input_dims |-> input_dims,
                              projected_dims |-> projected_dims, pca_vecs |-> NoBasis]
    /\ UNCHANGED <<projected, serialized>>
    /\ UNCHANGED directions
    /\ ProjectionOnly

\* PcaProjection::new: the three checks, then pca_vecs: None
PcaProjection_new(elem, input_dims, projected_dims) ==
    /\ ~ProjectionPanicked
    /\ ~projection.built
    /\ IF input_dims <= 0 \/ projected_dims <= 0 \/ input_dims < projected_dims
       THEN /\ last' = Called("PcaProjection::new", <<input_dims, projected_dims>>, "InvalidArgument")
            /\ UNCHANGED projection
       ELSE /\ last' = Called("PcaProjection::new", <<input_dims, projected_dims>>, "Ok")
            /\ projection' = [built |-> TRUE, elem |-> elem, input_dims |-> input_dims,
                              projected_dims |-> projected_dims, pca_vecs |-> NoBasis]
    /\ UNCHANGED <<projected, serialized>>
    /\ UNCHANGED directions
    /\ ProjectionOnly

\* create: compute_pca yields projected_dims zero rows of the data's dimensionality
create(d) ==
    /\ ~ProjectionPanicked
    /\ projection.built
    /\ projection' = [projection EXCEPT !.pca_vecs =
           Basis([i \in 1..projection.projected_dims |-> ZeroRow(d.dimensionality)],
                 d.dimensionality)]
    /\ last' = Called("create", <<>>, "Ok")
    /\ UNCHANGED <<projected, serialized>>
    /\ directions' = Detached
    /\ ProjectionOnly

\* create_with_thresholds: compute_pca_with_significance_threshold yields one
\* zero row; projected_dims becomes the number of rows
create_with_thresholds(d) ==
    /\ ~ProjectionPanicked
    /\ projection.built
    /\ projection' = [projection EXCEPT
           !.pca_vecs = Basis(<< ZeroRow(d.dimensionality) >>, d.dimensionality),
           !.projected_dims = 1]
    /\ last' = Called("create_with_thresholds", <<>>, "Ok")
    /\ UNCHANGED <<projected, serialized>>
    /\ directions' = Detached
    /\ ProjectionOnly

\* create_from_eigenvectors that overwrites the dataset behind the Arc it holds
create_from_eigenvectors_in_place(eigenvectors) ==
    /\ ~ProjectionPanicked
    /\ projection.built
    /\ projection' = [projection EXCEPT
           !.pca_vecs = Basis(eigenvectors.data, eigenvectors.dimensionality)]
    /\ last' = Called("create_from_eigenvectors", <<>>, "Ok")
    /\ UNCHANGED <<projected, serialized>>
    /\ directions' = IF directions.shared
                     THEN [directions EXCEPT !.data = eigenvectors.data,
                                             !.dimensionality = eigenvectors.dimensionality]
                     ELSE directions
    /\ ProjectionOnly

\* create_from_eigenvectors: the dataset becomes the basis as it is
create_from_eigenvectors(eigenvectors) ==
    /\ ~ProjectionPanicked
    /\ projection.built
    /\ projection' = [projection EXCEPT
           !.pca_vecs = Basis(eigenvectors.data, eigenvectors.dimensionality)]
    /\ last' = Called("create_from_eigenvectors", <<>>, "Ok")
    /\ UNCHANGED <<projected, serialized>>
    /\ directions' = Detached
    /\ ProjectionOnly

(***************************************************************************)
(* distance_measures.rs: the registry and the measures it hands out        *)
(***************************************************************************)
\* the names get_distance_measure_by_name matches
RegisteredNames ==
    { "DotProductDistance", "BinaryDotProductDistance", "AbsDotProductDistance",
      "L2Distance", "SquaredL2Distance", "NegatedSquaredL2Distance", "L1Distance",
      "CosineDistance", "BinaryCosineDistance", "GeneralJaccardDistance",
      "BinaryJaccardDistance", "LimitedInnerProductDistance", "GeneralHammingDistance",
      "BinaryHammingDistance", "NonzeroIntersectDistance" }

\* the names the callers ask for: the registered ones, the empty one, two unknown ones
LookupNames == RegisteredNames \cup { "", "dotproductdistance", "EuclideanDistance" }

\* CosineDistance is defined twice, as a struct with an impl of its own and by
\* define_distance_measure!: the name resolves to one of the two
CosineDefinitions == { "struct", "macro" }

\* X::new(): the measure of type name; every type but CosineDistance has the macro's body
Measure(name) ==
    [type |-> name, def |-> IF name = "CosineDistance" THEN cosine_definition ELSE "macro"]

NoMeasure == [type |-> "", def |-> ""]

Lookup(fn, name, status, measure, consulted) ==
    [fn |-> fn, name |-> name, status |-> status, measure |-> measure, consulted |-> consulted]

\* get_distance_measure_by_name that falls back on a default for the empty name
get_distance_measure_by_name_default(name) ==
    IF name = "" THEN
        Lookup("get_distance_measure_by_name", name, "Ok", Measure("DotProductDistance"), TRUE)
    ELSE IF name \in RegisteredNames THEN
        Lookup("get_distance_measure_by_name", name, "Ok", Measure(name), TRUE)
    ELSE Lookup("get_distance_measure_by_name", name, "InvalidArgument", NoMeasure, TRUE)

\* match name { "..." => Ok(Box::new(...::new())), _ => Err(ScannError) }
get_distance_measure_by_name(name) ==
    IF name \in RegisteredNames THEN
        Lookup("get_distance_measure_by_name", name, "Ok", Measure(name), TRUE)
    ELSE Lookup("get_distance_measure_by_name", name, "InvalidArgument", NoMeasure, TRUE)

\* the error for an empty config is returned before the registry is asked
get_distance_measure(config) ==
    IF config.distance_measure = "" THEN
        Lookup("get_distance_measure", config.distance_measure, "InvalidArgument", NoMeasure, FALSE)
    ELSE [get_distance_measure_by_name(config.distance_measure) EXCEPT !.fn = "get_distance_measure"]

\* the vectors the distances are computed on: integer components, and norms and
\* cosines that are integers too, so that the f32 results are exact
MeasureVectors ==
    { <<Num(0)>>, <<Num(1)>>, <<Num(-2)>>,
      <<Num(0), Num(0)>>, <<Num(3), Num(0)>>, <<Num(-3), Num(0)>>, <<Num(0), Num(-4)>> }

HasNaN(a) == \E i \in 1..Len(a) : a[i].nan

\* the square root of a perfect square
ISqrt(n) == CHOOSE r \in 0..n : r * r <= n /\ (r + 1) * (r + 1) > n

\* DVector::norm
norm(a) == IF HasNaN(a) THEN NaN ELSE Num(ISqrt(SumProducts(a, a, Len(a)).val))

Distance(status, val) == [status |-> status, val |-> val]

\* (x).max(-1.0).min(1.0): f32::max and f32::min drop a NaN operand
Clamp(x) == IF x.nan THEN Num(-1) ELSE IF x.val < -1 THEN Num(-1) ELSE IF x.val > 1 THEN Num(1) ELSE x

\* impl DistanceMeasure for CosineDistance: 1.0 when a norm is zero, else
\* 1 - cos(a, b); DVector::dot panics when the two lengths differ
CosineDistance_compute_distance(a, b) ==
    LET norm_a == norm(a)
        norm_b == norm(b)
    IN  IF (~norm_a.nan /\ norm_a.val = 0) \/ (~norm_b.nan /\ norm_b.val = 0)
            THEN Distance("Ok", Num(1))
        ELSE IF Len(a) # Len(b) THEN Distance("panic", Num(0))
        ELSE IF norm_a.nan \/ norm_b.nan THEN Distance("Ok", Num(1 - Clamp(NaN).val))
        ELSE LET dot == SumProducts(a, b, Len(a)).val
                 cos == Num(dot \div (norm_a.val * norm_b.val))
             IN  Distance("Ok", Num(1 - Clamp(cos).val))

\* measure.compute_distance(a, b) of the measure a lookup handed out
MeasureDistance(measure, a, b) ==
    IF measure.def = "struct" THEN CosineDistance_compute_distance(a, b)
    ELSE Distance("Ok", compute_distance(measure.type, a, b))

NoDistance == [a |-> <<>>, b |-> <<>>, status |-> "none", val |-> Num(0)]

NoMeasureCall == [lookup |-> Lookup("none", "", "none", NoMeasure, FALSE), dist |-> NoDistance]

\* a lookup or a distance touches nothing else
MeasuresOnly ==
    UNCHANGED <<data, dimensionality, retriever, results, last, keys, overflow_checks,
                cosine_definition, projection, projected, serialized,
                directions, chunks, training_options, threads>>

LookupByName(name) ==
    /\ measure_call.dist.status # "panic"
    /\ measure_call' = [lookup |-> get_distance_measure_by_name(name), dist |-> NoDistance]
    /\ MeasuresOnly

LookupByConfig(config) ==
    /\ measure_call.dist.status # "panic"
    /\ measure_call' = [lookup |-> get_distance_measure(config), dist |-> NoDistance]
    /\ MeasuresOnly

\* the measure the last lookup returned computes a distance
ComputeDistance(a, b) ==
    /\ measure_call.lookup.status = "Ok"
    /\ measure_call.dist.status # "panic"
    /\ LET d == MeasureDistance(measure_call.lookup.measure, a, b)
       IN  measure_call' = [measure_call EXCEPT
               !.dist = [a |-> a, b |-> b, status |-> d.status, val |-> d.val]]
    /\ MeasuresOnly

InitMeasures ==
    /\ data = <<>>
    /\ dimensionality = 0
    /\ retriever = NoRetriever
    /\ results = NoResults
    /\ last = Called("new", <<>>, "Ok")
    /\ keys = NoKeys
    /\ overflow_checks = FALSE
    /\ measure_call = NoMeasureCall
    /\ cosine_definition \in CosineDefinitions
    /\ ProjectionUnused
    /\ RestUnused

NextMeasures ==
    \/ \E name \in LookupNames : LookupByName(name)
    \/ \E name \in LookupNames : LookupByConfig([distance_measure |-> name])
    \/ \E a \in MeasureVectors, b \in MeasureVectors : ComputeDistance(a, b)

SpecMeasures == InitMeasures /\ [][NextMeasures]_vars

(***************************************************************************)
(* projection.rs: loading, projecting and serializing                      *)
(***************************************************************************)
\* every rotation vector has the length of the first one
Uniform(rotation_vec) ==
    \A i \in 1..Len(rotation_vec) : Len(rotation_vec[i]) = Len(rotation_vec[1])

\* the rotation vectors in front of the first one of another length
UniformPrefix(rotation_vec) ==
    LET bad == CHOOSE i \in 1..Len(rotation_vec) :
                   /\ Len(rotation_vec[i]) # Len(rotation_vec[1])
                   /\ \A j \in 1..(i - 1) : Len(rotation_vec[j]) = Len(rotation_vec[1])
    IN  SubSeq(rotation_vec, 1, bad - 1)

\* create_from_serialized that appends to the basis it holds, row by row
create_from_serialized_in_place(rotation_vec) ==
    /\ ~ProjectionPanicked
    /\ projection.built
    /\ IF Len(rotation_vec) = 0
       THEN /\ last' = Called("create_from_serialized", rotation_vec, "InvalidArgument")
            /\ UNCHANGED projection
       ELSE IF ~Uniform(rotation_vec)
       THEN /\ last' = Called("create_from_serialized", rotation_vec, "InvalidArgument")
            /\ projection' = [projection EXCEPT
                   !.pca_vecs = Basis(UniformPrefix(rotation_vec), Len(rotation_vec[1]))]
       ELSE /\ last' = Called("create_from_serialized", rotation_vec, "Ok")
            /\ projection' = [projection EXCEPT
                   !.pca_vecs = Basis(rotation_vec, Len(rotation_vec[1]))]
    /\ UNCHANGED <<projected, serialized>>
    /\ directions' = IF Len(rotation_vec) = 0 THEN directions ELSE Detached
    /\ ProjectionOnly

\* create_from_serialized: the rows are appended to a local dataset whose
\* dimensionality is the first row's length; self.pca_vecs is assigned at the end
create_from_serialized(rotation_vec) ==
    /\ ~ProjectionPanicked
    /\ projection.built
    /\ IF Len(rotation_vec) = 0 \/ ~Uniform(rotation_vec)
       THEN /\ last' = Called("create_from_serialized", rotation_vec, "InvalidArgument")
            /\ UNCHANGED projection
       ELSE /\ last' = Called("create_from_serialized", rotation_vec, "Ok")
            /\ projection' = [projection EXCEPT
                   !.pca_vecs = Basis(rotation_vec, Len(rotation_vec[1]))]
    /\ UNCHANGED <<projected, serialized>>
    /\ directions' = IF Len(rotation_vec) = 0 \/ ~Uniform(rotation_vec) THEN directions ELSE Detached
    /\ ProjectionOnly

\* the protos a caller can pass: its own, and the one serialize_to_proto returned
Rotations ==
    CallerRotations \cup
        (IF serialized.result = "Some" THEN { serialized.rotation_vec } ELSE {})

\* what project_input leaves in the output vector once a basis is there: the
\* vector is cleared and resized to projected_dims zeros, then component i is
\* written for every row i of the basis, which panics at the first row beyond
\* projected_dims; for T = f32 every component is negated afterwards
Projection(self, input) ==
    LET rows == self.pca_vecs.data
        n    == self.projected_dims
        dot(i) == IF i <= Len(rows) THEN dot_product(input, rows[i]) ELSE Num(0)
    IN  IF Len(rows) > n
        THEN [status |-> "panic", values |-> [i \in 1..n |-> dot(i)]]
        ELSE [status |-> "Ok",
              values |-> [i \in 1..n |-> IF self.elem = "f32" THEN FNeg(dot(i)) ELSE dot(i)]]

\* project_input that clears the output vector before it looks for the basis
project_input_clears_first(input) ==
    /\ ~ProjectionPanicked
    /\ projection.built
    /\ IF ~projection.pca_vecs.present
       THEN /\ last' = Called("project_input", input, "FailedPrecondition")
            /\ projected' = <<>>
       ELSE LET p == Projection(projection, input)
            IN  /\ last' = Called("project_input", input, p.status)
                /\ projected' = p.values
    /\ UNCHANGED <<projection, serialized, directions>>
    /\ ProjectionOnly

\* project_input: the error comes before the output vector is touched
project_input(input) ==
    /\ ~ProjectionPanicked
    /\ projection.built
    /\ IF ~projection.pca_vecs.present
       THEN /\ last' = Called("project_input", input, "FailedPrecondition")
            /\ UNCHANGED projected
       ELSE LET p == Projection(projection, input)
            IN  /\ last' = Called("project_input", input, p.status)
                /\ projected' = p.values
    /\ UNCHANGED <<projection, serialized, directions>>
    /\ ProjectionOnly

\* DatapointPtr::to_gfv: the components as f32, in order
to_gfv(values) == [i \in 1..Len(values) |-> values[i]]

\* serialize_to_proto: None without a basis, else one rotation vector per row
serialize_to_proto ==
    /\ ~ProjectionPanicked
    /\ projection.built
    /\ serialized' =
           IF ~projection.pca_vecs.present
           THEN [result |-> "None", rotation_vec |-> <<>>, of |-> NoBasis]
           ELSE [result |-> "Some",
                 rotation_vec |-> [i \in 1..Len(projection.pca_vecs.data) |->
                                      to_gfv(projection.pca_vecs.data[i])],
                 of |-> projection.pca_vecs]
    /\ last' = Called("serialize_to_proto", <<>>, "Ok")
    /\ UNCHANGED <<projection, projected, directions>>
    /\ ProjectionOnly

\* RandomOrthogonalProjection::create: projected_dims rows of input_dims zeros
\* with data[i][i] = 1.0, an index out of bounds when projected_dims > input_dims
RandomOrthogonalProjection_create(input_dims, projected_dims) ==
    IF projected_dims > input_dims THEN [status |-> "panic", data |-> <<>>]
    ELSE [status |-> "Ok",
          data |-> [i \in 1..projected_dims |->
                       [j \in 1..input_dims |-> IF i = j THEN Num(1) ELSE Num(0)]]]

\* the two assert_eq! of random_rotate_projection_matrix fail, or a row is
\* too short for pca_vecs.data[row_idx][col_idx]
RotatePanics(self) ==
    \/ Len(self.pca_vecs.data) # self.projected_dims
    \/ self.pca_vecs.dimensionality # self.input_dims
    \/ \E r \in 1..self.projected_dims : Len(self.pca_vecs.data[r]) < self.input_dims

\* rotated_matrix in chunks of input_dims: entry (row, col) is the dot product
\* of column col of the basis with row row of the orthogonal matrix
Rotated(self) ==
    LET ortho == RandomOrthogonalProjection_create(self.projected_dims, self.projected_dims).data
        col_vec(c) == [r \in 1..self.projected_dims |-> self.pca_vecs.data[r][c]]
    IN  [row \in 1..self.projected_dims |->
            [col \in 1..self.input_dims |-> dot_product(col_vec(col), ortho[row])]]

\* random_rotate_projection_matrix: without a basis it prints to stderr and
\* returns; else it asserts the shape and installs the rotated rows
random_rotate_projection_matrix ==
    /\ ~ProjectionPanicked
    /\ projection.built
    /\ IF ~projection.pca_vecs.present
       THEN /\ last' = Called("random_rotate_projection_matrix", <<>>, "Ignored")
            /\ UNCHANGED <<projection, directions>>
       ELSE IF RotatePanics(projection)
       THEN /\ last' = Called("random_rotate_projection_matrix", <<>>, "panic")
            /\ UNCHANGED <<projection, directions>>
       ELSE /\ last' = Called("random_rotate_projection_matrix", <<>>, "Ok")
            /\ projection' = [projection EXCEPT
                   !.pca_vecs = Basis(Rotated(projection), projection.input_dims)]
            /\ directions' = Detached
    /\ UNCHANGED <<projected, serialized>>
    /\ ProjectionOnly

\* get_directions: a clone of the Arc, which shares the allocation of the basis
get_directions ==
    /\ ~ProjectionPanicked
    /\ projection.built
    /\ directions' =
           IF ~projection.pca_vecs.present THEN NoSnapshot
           ELSE [taken |-> TRUE, shared |-> TRUE, data |-> projection.pca_vecs.data,
                 dimensionality |-> projection.pca_vecs.dimensionality]
    /\ last' = Called("get_directions", <<>>, "Ok")
    /\ UNCHANGED <<projection, projected, serialized>>
    /\ ProjectionOnly

InitProjection ==
    /\ data = <<>>
    /\ dimensionality = 0
    /\ retriever = NoRetriever
    /\ results = NoResults
    /\ last = Called("new", <<>>, "Ok")
    /\ keys = NoKeys
    /\ overflow_checks = FALSE
    /\ measure_call = NoMeasureCall
    /\ cosine_definition = "struct"
    /\ ProjectionUnused
    /\ RestUnused

NextProjection ==
    \/ \E elem \in ElemTypes, input_dims \in ProjectionDims, projected_dims \in ProjectionDims :
           PcaProjection_new(elem, input_dims, projected_dims)
    \/ \E d \in FitDatasets : create(d)
    \/ \E d \in FitDatasets : create_with_thresholds(d)
    \/ \E eigenvectors \in EigenDatasets : create_from_eigenvectors(eigenvectors)
    \/ \E rotation_vec \in Rotations : create_from_serialized(rotation_vec)
    \/ \E input \in ProjectionInputs : project_input(input)
    \/ serialize_to_proto
    \/ random_rotate_projection_matrix

SpecProjection == InitProjection /\ [][NextProjection]_vars

\* the projection with a caller that keeps what get_directions returned
NextDirections ==
    \/ \E input_dims \in ProjectionDims, projected_dims \in ProjectionDims :
           PcaProjection_new("f32", input_dims, projected_dims)
    \/ \E d \in FitDatasets : create(d)
    \/ \E d \in FitDatasets : create_with_thresholds(d)
    \/ \E eigenvectors \in EigenDatasets : create_from_eigenvectors(eigenvectors)
    \/ \E rotation_vec \in CallerRotations : create_from_serialized(rotation_vec)
    \/ random_rotate_projection_matrix
    \/ get_directions

SpecDirections == InitProjection /\ [][NextDirections]_vars

(***************************************************************************)
(* retrieval.rs: ScannRetriever::retrieve_chunks                           *)
(***************************************************************************)
\* the u32 tokens of the input sequences
Tokens == { 0, 7 }

TokenSequences == UNION { [1..n -> Tokens] : n \in 0..MaxSeqLen }

ChunkSizes == 0..MaxChunkSize

Chunks(status, input_seq, chunk_size, lists) ==
    [status |-> status, input_seq |-> input_seq, chunk_size |-> chunk_size, lists |-> lists]

\* vec![vec![vec![0; chunk_size]; k]; n]
ZeroLists(n, k, chunk_size) == [c \in 1..n |-> [i \in 1..k |-> [t \in 1..chunk_size |-> 0]]]

\* retrieve_chunks that gives the trailing partial chunk an entry of its own
retrieve_chunks_padded(input_seq, chunk_size) ==
    /\ ~Panicked
    /\ chunks.status # "panic"
    /\ retriever.built
    /\ chunks' =
           IF chunk_size = 0 THEN Chunks("panic", input_seq, chunk_size, <<>>)
           ELSE Chunks("Ok", input_seq, chunk_size,
                       ZeroLists((Len(input_seq) + chunk_size - 1) \div chunk_size,
                                 retriever.k, chunk_size))
    /\ last' = Called("retrieve_chunks", input_seq, chunks'.status)
    /\ UNCHANGED <<data, dimensionality, retriever, results>>
    /\ UNCHANGED <<keys, overflow_checks, measure_call, cosine_definition,
                   projection, projected, serialized, directions, training_options, threads>>

\* retrieve_chunks: input_seq.len() / chunk_size lists of k sequences of
\* chunk_size zeros; the division panics when chunk_size is 0
retrieve_chunks(input_seq, chunk_size) ==
    /\ ~Panicked
    /\ chunks.status # "panic"
    /\ retriever.built
    /\ chunks' =
           IF chunk_size = 0 THEN Chunks("panic", input_seq, chunk_size, <<>>)
           ELSE Chunks("Ok", input_seq, chunk_size,
                       ZeroLists(Len(input_seq) \div chunk_size, retriever.k, chunk_size))
    /\ last' = Called("retrieve_chunks", input_seq, chunks'.status)
    /\ UNCHANGED <<data, dimensionality, retriever, results>>
    /\ UNCHANGED <<keys, overflow_checks, measure_call, cosine_definition,
                   projection, projected, serialized, directions, training_options, threads>>

InitChunks ==
    /\ data = <<>>
    /\ dimensionality \in Dims
    /\ retriever = NoRetriever
    /\ results = NoResults
    /\ last = Called("new", <<>>, "Ok")
    /\ keys = NoKeys
    /\ overflow_checks = FALSE
    /\ measure_call = NoMeasureCall
    /\ cosine_definition = "struct"
    /\ ProjectionUnused
    /\ RestUnused

NextChunks ==
    \/ \E measure \in RetrieverMeasures, k \in 0..MaxK : ScannRetriever_new(measure, k)
    \/ \E input_seq \in TokenSequences, chunk_size \in ChunkSizes :
           retrieve_chunks(input_seq, chunk_size)

SpecChunks == InitChunks /\ [][NextChunks]_vars

(***************************************************************************)
(* tree.rs: KMeansTreeTrainingOptions::from_config                         *)
(***************************************************************************)
\* the configurations handed to from_config, as the values of their accessors
PartitioningConfigs ==
    [ partitioning_type : { "Default" },
      max_num_levels : { 1, 2 },
      max_leaf_size : { 0, 10, 20 },
      spilling_type : { "Default" },
      replication_factor : { Num(3) },
      max_spill_centers : { 4 },
      max_clustering_iterations : { 12 },
      clustering_convergence_tolerance : { Num(5) },
      min_cluster_size : { 0, 10, 15, 30 },
      clustering_seed : { 0, 42 },
      balancing_type : { "DefaultUnbalanced", "GreedyBalanced", "UnbalancedFloat32" },
      trainer_type : { "DefaultSamplingTrainer", "FlumeKmeansTrainer",
                       "PcaKmeansTrainer", "SamplingPcaKmeansTrainer" },
      single_machine_center_initialization : { "DefaultKmeansPlusPlus", "RandomInitialization" } ]

\* match config.balancing_type()
BalancingTypeOf(t) ==
    CASE t = "DefaultUnbalanced" -> "Unbalanced"
      [] t = "GreedyBalanced"    -> "GreedyBalanced"
      [] t = "UnbalancedFloat32" -> "UnbalancedFloat32"

\* match config.trainer_type() with every trainer sent to the default arm
ReassignmentTypeOfDefault(t) == "RandomReassignment"

\* match config.trainer_type()
ReassignmentTypeOf(t) ==
    CASE t \in { "DefaultSamplingTrainer", "FlumeKmeansTrainer" }     -> "RandomReassignment"
      [] t \in { "PcaKmeansTrainer", "SamplingPcaKmeansTrainer" }     -> "PcaSplitting"

\* match config.single_machine_center_initialization()
CenterInitializationTypeOf(t) ==
    CASE t = "DefaultKmeansPlusPlus" -> "KmeansPlusPlus"
      [] t = "RandomInitialization"  -> "RandomInitialization"

\* from_config returns Self: there is no error path
from_config(config) ==
    [ partitioning_type |-> config.partitioning_type,
      max_num_levels |-> config.max_num_levels,
      max_leaf_size |-> config.max_leaf_size,
      learned_spilling_type |-> config.spilling_type,
      per_node_spilling_factor |-> config.replication_factor,
      max_spill_centers |-> config.max_spill_centers,
      max_iterations |-> config.max_clustering_iterations,
      convergence_epsilon |-> config.clustering_convergence_tolerance,
      min_cluster_size |-> config.min_cluster_size,
      seed |-> config.clustering_seed,
      balancing_type |-> BalancingTypeOf(config.balancing_type),
      reassignment_type |-> ReassignmentTypeOf(config.trainer_type),
      center_initialization_type |->
          CenterInitializationTypeOf(config.single_machine_center_initialization) ]

\* a caller builds the trainer options from a configuration
FromConfig(config) ==
    /\ training_options' = [status |-> "Ok", config |-> config, options |-> from_config(config)]
    /\ UNCHANGED <<data, dimensionality, retriever, results, last, keys, overflow_checks,
                   measure_call, cosine_definition, projection, projected, serialized,
                   directions, chunks, threads>>

InitTree ==
    /\ data = <<>>
    /\ dimensionality = 0
    /\ retriever = NoRetriever
    /\ results = NoResults
    /\ last = Called("new", <<>>, "Ok")
    /\ keys = NoKeys
    /\ overflow_checks = FALSE
    /\ measure_call = NoMeasureCall
    /\ cosine_definition = "struct"
    /\ ProjectionUnused
    /\ RestUnused

NextTree == \E config \in PartitioningConfigs : FromConfig(config)

SpecTree == InitTree /\ [][NextTree]_vars

(***************************************************************************)
(* retrieval.rs: searches that run in parallel on one retriever            *)
(***************************************************************************)
Threads == { 1, 2 }

\* a thread that has not called search
Idle == [pc |-> "idle", query |-> <<>>, scored |-> <<>>, result |-> NoResults]

\* the datasets the shared retriever is built over
SharedData == { <<v, w>> : v \in Vectors, w \in Vectors }

\* the searches touch nothing but their own locals
SearchLocal ==
    UNCHANGED <<data, dimensionality, retriever, results, last, keys, overflow_checks,
                measure_call, cosine_definition, projection, projected, serialized,
                directions, chunks, training_options>>

\* search(&self, query): let mut results = Vec::new()
BeginSearch(t, query) ==
    /\ threads[t].pc = "idle"
    /\ threads' = [threads EXCEPT ![t] = [Idle EXCEPT !.pc = "scan", !.query = query]]
    /\ SearchLocal

\* the (i, distance) pair of the next row, for the query of thread t
NextPair(t) ==
    LET i == Len(threads[t].scored) + 1
    IN  [id |-> i - 1,
         dist |-> compute_distance(retriever.measure, threads[t].query, data[i])]

\* one round of the loop with a results buffer that all the searches share
ScoreRowShared(t) ==
    /\ threads[t].pc = "scan"
    /\ Len(threads[t].scored) < Len(data)
    /\ threads' = [u \in Threads |->
           IF threads[u].pc = "scan"
           THEN [threads[u] EXCEPT !.scored = Append(threads[u].scored, NextPair(t))]
           ELSE threads[u]]
    /\ SearchLocal

\* one round of the loop: results.push((i, distance)) on the thread's own Vec
ScoreRow(t) ==
    /\ threads[t].pc = "scan"
    /\ Len(threads[t].scored) < Len(data)
    /\ threads' = [threads EXCEPT ![t].scored = Append(threads[t].scored, NextPair(t))]
    /\ SearchLocal

\* results.sort_by(..); Ok(results.into_iter().take(self.k).collect())
FinishSearch(t) ==
    /\ threads[t].pc = "scan"
    /\ Len(threads[t].scored) = Len(data)
    /\ threads' = [threads EXCEPT
           ![t].pc = "done",
           ![t].result =
               IF SortPanics(threads[t].scored) THEN [status |-> "panic", pairs |-> <<>>]
               ELSE [status |-> "Ok", pairs |-> take(sort_by(threads[t].scored), retriever.k)]]
    /\ SearchLocal

InitSearches ==
    /\ data \in SharedData
    /\ dimensionality = 1
    /\ retriever \in { [built |-> TRUE, measure |-> "DotProductDistance", k |-> k] : k \in 1..2 }
    /\ results = NoResults
    /\ last = Called("ScannRetriever::new", <<>>, "Ok")
    /\ keys = NoKeys
    /\ overflow_checks = FALSE
    /\ measure_call = NoMeasureCall
    /\ cosine_definition = "struct"
    /\ ProjectionUnused
    /\ chunks = NoChunks
    /\ training_options = NoOptions
    /\ threads = [t \in Threads |-> Idle]

NextSearches ==
    \/ \E t \in Threads, query \in Vectors : BeginSearch(t, query)
    \/ \E t \in Threads : ScoreRow(t)
    \/ \E t \in Threads : FinishSearch(t)

SpecSearches == InitSearches /\ [][NextSearches]_vars

InitCodec ==
    /\ data = <<>>
    /\ dimensionality = 0
    /\ retriever = NoRetriever
    /\ results = NoResults
    /\ last = Called("new", <<>>, "Ok")
    /\ keys = NoKeys
    /\ overflow_checks \in BOOLEAN
    /\ measure_call = NoMeasureCall
    /\ cosine_definition = "struct"
    /\ ProjectionUnused
    /\ RestUnused

NextCodec ==
    \/ \E s \in Slots, x \in U32Inputs : EncodeUint32(s, x)
    \/ \E s \in Slots, x \in I32Inputs : EncodeInt32(s, x)
    \/ \E s \in Slots, x \in U64Inputs : EncodeUint64(s, x)
    \/ \E s \in Slots, x \in F32Inputs : EncodeFloat(s, x)
    \/ \E s \in Slots, bytes \in RawKeys : SupplyKey(s, bytes)
    \/ \E s \in Slots : DecodeUint32(s)
    \/ \E s \in Slots : DecodeInt32(s)
    \/ \E s \in Slots : DecodeUint64(s)
    \/ \E s \in Slots : DecodeFloat(s)

SpecCodec == InitCodec /\ [][NextCodec]_vars

(***************************************************************************)
(* The store and the retriever: the specification.                                          *)
(***************************************************************************)
Init ==
    /\ data = <<>>
    /\ dimensionality \in Dims
    /\ retriever = NoRetriever
    /\ results = NoResults
    /\ last = Called("new", <<>>, "Ok")
    /\ keys = NoKeys
    /\ overflow_checks = FALSE
    /\ measure_call = NoMeasureCall
    /\ cosine_definition = "struct"
    /\ ProjectionUnused
    /\ RestUnused

Next ==
    \/ \E rows \in InitialData, dim \in Dims : DenseDataset_new(rows, dim)
    \/ \E dim \in Dims : set_dimensionality(dim)
    \/ reserve
    \/ \E values \in Vectors : append(values)
    \/ \E measure \in RetrieverMeasures, k \in 0..MaxK : ScannRetriever_new(measure, k)
    \/ \E query \in Vectors : search(query)

Spec == Init /\ [][Next]_vars

(***************************************************************************)
(* Properties of the store.                                                *)
(***************************************************************************)
\* C1: append(values) fails with InvalidArgument exactly when values.len()
\* differs from the dimensionality, and then leaves the store unchanged; when
\* the lengths agree it succeeds and the store grows by exactly that one row,
\* which becomes the last row.
C1_AppendChecksLength ==
    [][ last'.op = "append" =>
          IF Len(last'.arg) # dimensionality
          THEN /\ last'.status = "InvalidArgument"
               /\ data' = data
               /\ dimensionality' = dimensionality
          ELSE /\ last'.status = "Ok"
               /\ Len(data') = Len(data) + 1
               /\ data' = Append(data, last'.arg)
               /\ dimensionality' = dimensionality ]_vars

\* a non-empty store has just rejected a vector of the wrong length
C1_Witness ==
    /\ last.op = "append"
    /\ last.status = "InvalidArgument"
    /\ Len(last.arg) # dimensionality
    /\ Len(data) >= 1

\* C2: in every reachable state of the store, every stored vector has length
\* equal to the declared dimensionality.
C2_RowsHaveDeclaredLength ==
    \A i \in 1..Len(data) : Len(data[i]) = dimensionality

(***************************************************************************)
(* Properties of ScannRetriever::search.                                   *)
(***************************************************************************)
Searched == last.op = "search"

Returned == Searched /\ results.status = "Ok"

NonDecreasing(ps) ==
    \A i, j \in 1..Len(ps) :
        i < j => partial_cmp(ps[i].dist, ps[j].dist) \in {"Less", "Equal"}

\* C3: for every k, query and dataset, search returns exactly min(k, |D|)
\* pairs, in non-decreasing order of distance.
C3_SearchLengthAndOrder ==
    Searched =>
        /\ results.status = "Ok"
        /\ Len(results.pairs) = Min(retriever.k, Len(data))
        /\ NonDecreasing(results.pairs)

\* C4: a search that returns has scored the query against every stored vector
\* and returns the k smallest: it returns min(k, |D|) stored points, each with
\* the configured measure of the query and that point as its distance, and no
\* stored point left out is strictly nearer than a returned one.
C4_BruteForceKSmallest ==
    Returned =>
        LET ps == results.pairs
            ids == { ps[i].id : i \in 1..Len(ps) }
            d(p) == compute_distance(retriever.measure, last.arg, data[p + 1])
        IN  /\ Len(ps) = Min(retriever.k, Len(data))
            /\ \A i \in 1..Len(ps) :
                  /\ ps[i].id \in 0..(Len(data) - 1)
                  /\ ps[i].dist = d(ps[i].id)
            /\ \A p \in (0..(Len(data) - 1)) \ ids :
                  \A i \in 1..Len(ps) : partial_cmp(d(p), ps[i].dist) # "Less"

\* a search returned fewer points than are stored, and left out a strictly
\* farther one
C4_Witness ==
    /\ Returned
    /\ retriever.k >= 2
    /\ Len(results.pairs) = retriever.k
    /\ \E p \in 1..Len(data) :
          /\ \A i \in 1..Len(results.pairs) : results.pairs[i].id # p - 1
          /\ partial_cmp(results.pairs[Len(results.pairs)].dist,
                         compute_distance(retriever.measure, last.arg, data[p])) = "Less"

\* C5: in the result of search, candidates with equal distance appear in
\* ascending point-id order and no point id appears twice.
C5_TiesByAscendingId ==
    Returned =>
        \A i, j \in 1..Len(results.pairs) :
            i < j =>
                /\ results.pairs[i].id # results.pairs[j].id
                /\ partial_cmp(results.pairs[i].dist, results.pairs[j].dist) = "Equal"
                       => results.pairs[i].id < results.pairs[j].id

\* a result holds two candidates at the same distance, after a nearer one
C5_Witness ==
    /\ Returned
    /\ \E i, j \in 1..Len(results.pairs) :
          /\ 1 < i /\ i < j
          /\ partial_cmp(results.pairs[i].dist, results.pairs[j].dist) = "Equal"
          /\ partial_cmp(results.pairs[1].dist, results.pairs[i].dist) = "Less"

\* C6: a retriever built with "DotProductDistance" and k = 5 over at least 5
\* points returns exactly 5 ids ranked by descending dot product with the query.
C6_DotProductDescending ==
    (Returned /\ retriever.measure = "DotProductDistance"
              /\ retriever.k = 5 /\ Len(data) >= 5) =>
        LET ps == results.pairs
            dot(i) == MacroDistance(last.arg, data[ps[i].id + 1])
        IN  /\ Len(ps) = 5
            /\ \A i, j \in 1..Len(ps) :
                  i < j => partial_cmp(dot(i), dot(j)) \in {"Greater", "Equal"}

(***************************************************************************)
(* Properties of the key codec.                                            *)
(***************************************************************************)
\* Vec<u8>'s order: byte-lexicographic, a proper prefix first
LexLess(a, b) ==
    \/ \E i \in 1..Min(Len(a), Len(b)) :
          a[i] < b[i] /\ \A j \in 1..(i - 1) : a[j] = b[j]
    \/ Len(a) < Len(b) /\ \A j \in 1..Len(a) : a[j] = b[j]

\* an f32 bit pattern's magnitude bits, sign, and class
Magnitude(x) == << x[1] % sign_bit[1], x[2] >>

IsNegative(x) == SignBitSet(x)

IsFinite(x) == Magnitude(x)[1] \div 128 # 255

IsZero(x) == Magnitude(x) = <<0, 0>>

NegativeZero == sign_bit

\* a < b as IEEE-754 compares two finite values
FloatLess(a, b) ==
    IF IsZero(a) /\ IsZero(b) THEN FALSE
    ELSE IF IsNegative(a) # IsNegative(b) THEN IsNegative(a)
    ELSE IF IsNegative(a) THEN LexLess(Magnitude(b), Magnitude(a))
    ELSE LexLess(Magnitude(a), Magnitude(b))

\* the call whose key was decoded last
DecodedCall == keys.calls[keys.decoded.slot]

RoundTrips(kind, fn) ==
    (keys.decoded.fn = fn /\ DecodedCall.kind = kind) =>
        /\ keys.decoded.status = "Ok"
        /\ keys.decoded.val = DecodedCall.val

\* C7: integer keys round-trip: key_to_uint32(uint32_to_key(x)) = x for every
\* u32, key_to_int32(int32_to_key(x)) = x for every i32, and
\* key_to_uint64(uint64_to_key(x)) = x for every u64.
C7_IntegerKeysRoundTrip ==
    /\ RoundTrips("u32", "key_to_uint32")
    /\ RoundTrips("i32", "key_to_int32")
    /\ RoundTrips("u64", "key_to_uint64")

\* the key of a negative i32 was decoded back to it
C7_Witness ==
    /\ keys.decoded.fn = "key_to_int32"
    /\ DecodedCall.kind = "i32"
    /\ DecodedCall.val < 0
    /\ keys.decoded.status = "Ok"
    /\ keys.decoded.val = DecodedCall.val

\* C8: float keys round-trip: with arithmetic modulo 2^32, for every finite
\* f32 x other than negative zero, key_to_float(float_to_key(x)) returns
\* exactly the bit pattern of x.
C8_FloatKeysRoundTrip ==
    (/\ ~overflow_checks
     /\ keys.decoded.fn = "key_to_float"
     /\ DecodedCall.kind = "f32"
     /\ IsFinite(DecodedCall.val)
     /\ DecodedCall.val # NegativeZero) =>
        /\ DecodedCall.enc.status = "Ok"
        /\ keys.decoded.status = "Ok"
        /\ keys.decoded.val = DecodedCall.val

\* the key of a negative, non-zero finite float was decoded back to it
C8_Witness ==
    /\ ~overflow_checks
    /\ keys.decoded.fn = "key_to_float"
    /\ DecodedCall.kind = "f32"
    /\ IsFinite(DecodedCall.val)
    /\ IsNegative(DecodedCall.val)
    /\ ~IsZero(DecodedCall.val)
    /\ keys.decoded.status = "Ok"
    /\ keys.decoded.val = DecodedCall.val

\* C9: float keys preserve order: for all finite f32 a < b, float_to_key(a)
\* is strictly less than float_to_key(b) in byte-lexicographic order.
C9_FloatKeysPreserveOrder ==
    \A s, t \in Slots :
        (/\ keys.calls[s].kind = "f32" /\ keys.calls[t].kind = "f32"
         /\ IsFinite(keys.calls[s].val) /\ IsFinite(keys.calls[t].val)
         /\ FloatLess(keys.calls[s].val, keys.calls[t].val)) =>
            /\ keys.calls[s].enc.status = "Ok"
            /\ keys.calls[t].enc.status = "Ok"
            /\ LexLess(keys.calls[s].enc.key, keys.calls[t].enc.key)

\* C10: signed-integer keys preserve order: for all i32 a < b, int32_to_key(a)
\* is strictly less than int32_to_key(b) in byte-lexicographic order.
C10_Int32KeysPreserveOrder ==
    \A s, t \in Slots :
        (/\ keys.calls[s].kind = "i32" /\ keys.calls[t].kind = "i32"
         /\ keys.calls[s].val < keys.calls[t].val) =>
            LexLess(keys.calls[s].enc.key, keys.calls[t].enc.key)

(***************************************************************************)
(* C11: key_to_uint32, key_to_int32 and key_to_float answer InvalidArgument *)
(* exactly when the key is not 4 bytes long, key_to_uint64 exactly when it  *)
(* is not 8 bytes long: a key of the wrong length never yields a value and  *)
(* never panics.                                                            *)
(***************************************************************************)
KeyWidth(fn) == IF fn = "key_to_uint64" THEN 8 ELSE 4

DecodedKey == keys.calls[keys.decoded.slot].enc.key

C11_DecodeRejectsWrongWidth ==
    keys.decoded.fn # "none" =>
        (keys.decoded.status = "InvalidArgument") <=> (Len(DecodedKey) # KeyWidth(keys.decoded.fn))

\* a 3-byte string was refused by a 4-byte decoder and a 4-byte key by key_to_uint64
C11_Witness ==
    /\ keys.decoded.status = "InvalidArgument"
    /\ \/ keys.decoded.fn \in { "key_to_uint32", "key_to_int32", "key_to_float" } /\ Len(DecodedKey) = 3
       \/ keys.decoded.fn = "key_to_uint64" /\ Len(DecodedKey) = 4

(***************************************************************************)
(* C12: get_distance_measure_by_name answers InvalidArgument when the name  *)
(* is empty or not registered and hands out a measure for each registered   *)
(* name; get_distance_measure on a config with an empty distance_measure    *)
(* answers an error without asking the registry.                            *)
(***************************************************************************)
C12_RegistryLookup ==
    LET l == measure_call.lookup
    IN  /\ l.fn = "get_distance_measure_by_name" =>
            /\ (l.name = "" \/ l.name \notin RegisteredNames) => l.status = "InvalidArgument"
            /\ l.name \in RegisteredNames => l.status = "Ok" /\ l.measure.type = l.name
        /\ (l.fn = "get_distance_measure" /\ l.name = "") =>
            l.status # "Ok" /\ ~l.consulted

\* the empty name was refused by the registry
C12_Witness ==
    /\ measure_call.lookup.fn = "get_distance_measure_by_name"
    /\ measure_call.lookup.name = ""
    /\ measure_call.lookup.status = "InvalidArgument"

(***************************************************************************)
(* C13: a distance between two vectors of different lengths is refused      *)
(* with InvalidArgument by every registered measure: no score comes back.   *)
(***************************************************************************)
C13_LengthMismatchRejected ==
    (measure_call.dist.status # "none" /\ Len(measure_call.dist.a) # Len(measure_call.dist.b)) =>
        measure_call.dist.status = "InvalidArgument"

(***************************************************************************)
(* C14: for L1Distance, L2Distance, SquaredL2Distance and CosineDistance    *)
(* the distance from a non-zero integer vector to itself is 0.              *)
(***************************************************************************)
IsZeroVector(a) == \A i \in 1..Len(a) : ~a[i].nan /\ a[i].val = 0

C14_SelfDistanceIsZero ==
    LET d == measure_call.dist
    IN  (/\ d.status # "none"
         /\ measure_call.lookup.measure.type \in
                { "L1Distance", "L2Distance", "SquaredL2Distance", "CosineDistance" }
         /\ d.a = d.b
         /\ ~IsZeroVector(d.a)) =>
        (d.status = "Ok" /\ d.val = Num(0))

(***************************************************************************)
(* C15: the measure obtained for "CosineDistance" returns 1.0 whenever one  *)
(* of the two vectors has zero norm.                                        *)
(***************************************************************************)
C15_CosineZeroNormIsOne ==
    LET d == measure_call.dist
    IN  (/\ d.status # "none"
         /\ measure_call.lookup.measure.type = "CosineDistance"
         /\ (IsZeroVector(d.a) \/ IsZeroVector(d.b))) =>
        (d.status = "Ok" /\ d.val = Num(1))

(***************************************************************************)
(* C16: project_input fails with FailedPrecondition whenever no basis was   *)
(* fit or loaded, and then leaves the caller's output vector as it was.     *)
(***************************************************************************)
C16_ProjectNeedsBasis ==
    [][(last'.op = "project_input" /\ ~projection.pca_vecs.present) =>
          (last'.status = "FailedPrecondition" /\ projected' = projected)]_vars

\* a projection was refused and the output vector still holds what the
\* caller put there
C16_Witness ==
    /\ last.op = "project_input"
    /\ last.status = "FailedPrecondition"
    /\ ~projection.pca_vecs.present
    /\ projected = InitialProjected

(***************************************************************************)
(* C17: once a basis is set, by whichever construction path, project_input  *)
(* on an input of length input_dims succeeds and the output has exactly     *)
(* projected_dims components.                                               *)
(***************************************************************************)
C17_ProjectedLength ==
    (/\ last.op = "project_input"
     /\ projection.pca_vecs.present
     /\ Len(last.arg) = projection.input_dims) =>
        (last.status = "Ok" /\ Len(projected) = projection.projected_dims)

(***************************************************************************)
(* C18: the projection is the linear map of the basis: component i of the   *)
(* output is dot(basis_row[i], input) for every i below projected_dims,     *)
(* whether the element type is f32 or not.                                  *)
(***************************************************************************)
C18_ProjectionIsLinear ==
    (last.op = "project_input" /\ last.status = "Ok") =>
        \A i \in 1..Min(projection.projected_dims, Len(projection.pca_vecs.data)) :
            projected[i] = dot_product(projection.pca_vecs.data[i], last.arg)

(***************************************************************************)
(* C19: a non-empty basis B survives serialize_to_proto followed by         *)
(* create_from_serialized with the same rows in the same order, and         *)
(* serialize_to_proto returns nothing when no basis is set.                 *)
(***************************************************************************)
C19_BasisRoundTrips ==
    /\ (/\ last.op = "create_from_serialized"
        /\ serialized.result = "Some"
        /\ last.arg = serialized.rotation_vec
        /\ Len(serialized.of.data) > 0) =>
           /\ last.status = "Ok"
           /\ projection.pca_vecs.present
           /\ projection.pca_vecs.data = serialized.of.data
    /\ (last.op = "serialize_to_proto" /\ ~projection.pca_vecs.present) =>
           serialized.result = "None"

(***************************************************************************)
(* C20: create_from_serialized on a proto without rotation vectors fails    *)
(* with InvalidArgument, and a create_from_serialized that fails, on an     *)
(* empty proto or on rows of unequal length, leaves the basis held before   *)
(* as it was.                                                               *)
(***************************************************************************)
C20_FailedLoadKeepsBasis ==
    [][last'.op = "create_from_serialized" =>
          /\ Len(last'.arg) = 0 => last'.status = "InvalidArgument"
          /\ last'.status # "Ok" => projection' = projection]_vars

\* a load of rows of unequal length failed on a projection that holds a basis
C20_Witness ==
    /\ last.op = "create_from_serialized"
    /\ last.status = "InvalidArgument"
    /\ Len(last.arg) > 0
    /\ projection.pca_vecs.present

(***************************************************************************)
(* C21: PcaProjection::new(input_dims, projected_dims) fails with           *)
(* InvalidArgument exactly when input_dims <= 0, projected_dims <= 0 or     *)
(* input_dims < projected_dims; otherwise it returns a projection with the  *)
(* two dimensions given and no basis.                                       *)
(***************************************************************************)
C21_NewChecksDimensions ==
    last.op = "PcaProjection::new" =>
        LET input_dims     == last.arg[1]
            projected_dims == last.arg[2]
            refused == input_dims <= 0 \/ projected_dims <= 0 \/ input_dims < projected_dims
        IN  /\ (last.status = "InvalidArgument") <=> refused
            /\ refused => ~projection.built
            /\ ~refused =>
                   /\ last.status = "Ok"
                   /\ projection.built
                   /\ projection.input_dims = input_dims
                   /\ projection.projected_dims = projected_dims
                   /\ ~projection.pca_vecs.present

\* positive dimensions were refused because the projected one is the larger
C21_Witness ==
    /\ last.op = "PcaProjection::new"
    /\ last.status = "InvalidArgument"
    /\ last.arg[1] > 0
    /\ last.arg[2] > last.arg[1]

(***************************************************************************)
(* C22: in every state a PcaProjection reaches through create,              *)
(* create_with_thresholds, create_from_eigenvectors, create_from_serialized *)
(* and random_rotate_projection_matrix, projected_dims <= input_dims, and a *)
(* basis that is present has exactly projected_dims rows of length          *)
(* input_dims each.                                                         *)
(***************************************************************************)
C22_BasisShape ==
    projection.built =>
        /\ projection.projected_dims <= projection.input_dims
        /\ projection.pca_vecs.present =>
               /\ Len(projection.pca_vecs.data) = projection.projected_dims
               /\ \A r \in 1..Len(projection.pca_vecs.data) :
                      Len(projection.pca_vecs.data[r]) = projection.input_dims

(***************************************************************************)
(* C25: every failure of a public operation comes back to the caller as an  *)
(* error value: no call panics and no call ignores its failure, neither     *)
(* random_rotate_projection_matrix without a basis or with a basis of the   *)
(* wrong shape nor project_input on a basis with too many rows.             *)
(***************************************************************************)
C25_FailuresAreReturned ==
    /\ last.status \notin { "panic", "Ignored" }
    /\ (last.op = "random_rotate_projection_matrix" /\ ~projection.pca_vecs.present) =>
           last.status \in { "InvalidArgument", "FailedPrecondition" }

(***************************************************************************)
(* C26: the basis is replaced as a whole and never changed in place: what   *)
(* get_directions returned keeps its rows through every later create,       *)
(* create_with_thresholds, create_from_eigenvectors, create_from_serialized *)
(* and random_rotate_projection_matrix, and a later get_directions returns  *)
(* the whole new basis.                                                     *)
(***************************************************************************)
C26_BasisReplacedWholesale ==
    [][/\ (directions.taken /\ last'.op # "get_directions") =>
              /\ directions'.taken
              /\ directions'.data = directions.data
              /\ directions'.dimensionality = directions.dimensionality
       /\ (last'.op = "get_directions" /\ projection'.pca_vecs.present) =>
              /\ directions'.taken
              /\ directions'.data = projection'.pca_vecs.data
              /\ directions'.dimensionality = projection'.pca_vecs.dimensionality]_vars

\* the caller holds an old basis while the projection holds another one
C26_Witness ==
    /\ directions.taken
    /\ ~directions.shared
    /\ projection.pca_vecs.present
    /\ projection.pca_vecs.data # directions.data
    /\ last.status = "Ok"

(***************************************************************************)
(* C23: retrieve_chunks(token_sequence, chunk_size) with chunk_size > 0     *)
(* returns exactly floor(len / chunk_size) per-chunk lists: the windows do  *)
(* not overlap, a trailing chunk shorter than chunk_size gets no entry, and *)
(* every list holds k token sequences.                                      *)
(***************************************************************************)
C23_ChunkCount ==
    (chunks.status # "none" /\ chunks.chunk_size > 0) =>
        LET n == Len(chunks.lists)
        IN  /\ chunks.status = "Ok"
            /\ n * chunks.chunk_size <= Len(chunks.input_seq)
            /\ Len(chunks.input_seq) - n * chunks.chunk_size < chunks.chunk_size
            /\ \A c \in 1..n :
                   /\ Len(chunks.lists[c]) = retriever.k
                   /\ \A i \in 1..retriever.k : Len(chunks.lists[c][i]) = chunks.chunk_size

\* three tokens in chunks of two: one list of k sequences, the third token dropped
C23_Witness ==
    /\ chunks.status = "Ok"
    /\ Len(chunks.input_seq) = 3
    /\ chunks.chunk_size = 2
    /\ Len(chunks.lists) = 1
    /\ retriever.k >= 1

(***************************************************************************)
(* C24: building the trainer options from a configuration whose             *)
(* min_cluster_size is greater than its max_leaf_size fails with            *)
(* InvalidArgument: from_config never produces options with                 *)
(* min_cluster_size > max_leaf_size.                                        *)
(***************************************************************************)
C24_MinClusterSizeChecked ==
    training_options.status # "none" =>
        /\ training_options.config.min_cluster_size > training_options.config.max_leaf_size =>
               training_options.status = "InvalidArgument"
        /\ training_options.status = "Ok" =>
               training_options.options.min_cluster_size <= training_options.options.max_leaf_size

(***************************************************************************)
(* C29: from_config is a total and faithful translation: every scalar field *)
(* is copied unchanged (the replication factor as per_node_spilling_factor),*)
(* the balancing and center-initialization types map one to one, and the    *)
(* trainer types DefaultSamplingTrainer and FlumeKmeansTrainer give         *)
(* RandomReassignment, PcaKmeansTrainer and SamplingPcaKmeansTrainer give   *)
(* PcaSplitting.                                                            *)
(***************************************************************************)
C29_FromConfigIsFaithful ==
    training_options.status # "none" =>
        LET c == training_options.config
            o == training_options.options
        IN  /\ training_options.status = "Ok"
            /\ o.partitioning_type = c.partitioning_type
            /\ o.max_num_levels = c.max_num_levels
            /\ o.max_leaf_size = c.max_leaf_size
            /\ o.learned_spilling_type = c.spilling_type
            /\ o.per_node_spilling_factor = c.replication_factor
            /\ o.max_spill_centers = c.max_spill_centers
            /\ o.max_iterations = c.max_clustering_iterations
            /\ o.convergence_epsilon = c.clustering_convergence_tolerance
            /\ o.min_cluster_size = c.min_cluster_size
            /\ o.seed = c.clustering_seed
            /\ (c.balancing_type = "DefaultUnbalanced") <=> (o.balancing_type = "Unbalanced")
            /\ (c.balancing_type = "GreedyBalanced") <=> (o.balancing_type = "GreedyBalanced")
            /\ (c.balancing_type = "UnbalancedFloat32") <=> (o.balancing_type = "UnbalancedFloat32")
            /\ (c.single_machine_center_initialization = "DefaultKmeansPlusPlus")
                   <=> (o.center_initialization_type = "KmeansPlusPlus")
            /\ (c.single_machine_center_initialization = "RandomInitialization")
                   <=> (o.center_initialization_type = "RandomInitialization")
            /\ (c.trainer_type \in { "DefaultSamplingTrainer", "FlumeKmeansTrainer" })
                   <=> (o.reassignment_type = "RandomReassignment")
            /\ (c.trainer_type \in { "PcaKmeansTrainer", "SamplingPcaKmeansTrainer" })
                   <=> (o.reassignment_type = "PcaSplitting")

\* a sampling PCA trainer was translated to PCA splitting
C29_Witness ==
    /\ training_options.status = "Ok"
    /\ training_options.config.trainer_type = "SamplingPcaKmeansTrainer"
    /\ training_options.options.reassignment_type = "PcaSplitting"
    /\ training_options.options.seed = 42

(***************************************************************************)
(* C27: float_to_key builds the key the specification describes: for a      *)
(* non-negative float the bit pattern with the sign bit set, for a negative *)
(* float with magnitude bits m the pattern with the sign bit cleared and    *)
(* the 31 magnitude bits complemented, 0x7FFFFFFF - m, as 4 big-endian      *)
(* bytes.                                                                   *)
(***************************************************************************)
\* 0x7FFFFFFF - m for a magnitude m of 31 bits
ComplementedMagnitude(m) == << sign_bit[1] - 1 - m[1], Limb - 1 - m[2] >>

\* the four bytes of a u32, most significant first
BigEndian(n) == << n[1] \div Byte, n[1] % Byte, n[2] \div Byte, n[2] % Byte >>

DescribedKey(x) ==
    IF IsNegative(x) THEN BigEndian(ComplementedMagnitude(Magnitude(x)))
    ELSE BigEndian(<< x[1] + sign_bit[1], x[2] >>)

C27_FloatKeyLayout ==
    \A s \in Slots :
        keys.calls[s].kind = "f32" =>
            /\ keys.calls[s].enc.status = "Ok"
            /\ keys.calls[s].enc.key = DescribedKey(keys.calls[s].val)

(***************************************************************************)
(* C28: search only reads the shared state: it leaves the dataset, the      *)
(* measure and k as they are, and every search that runs interleaved with   *)
(* others on the same retriever returns exactly what it returns when it     *)
(* runs alone.                                                              *)
(***************************************************************************)
C28_SearchIsReadOnly ==
    [][/\ data' = data
       /\ dimensionality' = dimensionality
       /\ retriever' = retriever
       /\ \A t \in Threads :
              threads'[t].pc = "done" =>
                  threads'[t].result =
                      search_result(data, retriever.measure, retriever.k, threads'[t].query)]_vars

\* one search has returned while another one, with another query, is halfway
\* through the rows
C28_Witness ==
    /\ threads # NoThreads
    /\ threads[2].pc = "done"
    /\ threads[2].result.status = "Ok"
    /\ Len(threads[2].result.pairs) = 2
    /\ threads[1].pc = "scan"
    /\ Len(threads[1].scored) = 1
    /\ threads[1].query # threads[2].query

====
